---- MODULE Spec2Model ----
(***************************************************************************)
(* Model of the PDF exercise extractor (exercise_croppy).                  *)
(*                                                                         *)
(*   src/main.py                                   command-line entry      *)
(*   src/src/pdf_extractor/main.py                 PDFExerciseExtractor    *)
(*   src/src/pdf_extractor/utils/bbox_operations.py  bounds calculators    *)
(*   src/src/pdf_extractor/config/settings.py      ExtractionConfig        *)
(*                                                                         *)
(* Coordinates are PDF points, modelled as integers.  A rectangle is a     *)
(* record [x0, y0, x1, y1] as fitz.Rect.  Page numbers are 0-based as in   *)
(* the code; page p of the document is doc[p + 1].                         *)
(*                                                                         *)
(* The document library (PyMuPDF) is modelled by what the program asks of  *)
(* it: page geometry, the three text searches, the span and word layout,   *)
(* new_page/show_pdf_page as an append of (source page, clip), save and    *)
(* close.  Any library call of the page iteration may raise.  The progress *)
(* bar does not touch the state and is left out.                           *)
(*                                                                         *)
(* Spec is the whole command-line run.  SpecClassify runs                  *)
(* _is_header_format alone on pages of a few spans.                        *)
(***************************************************************************)
EXTENDS Integers, Sequences, FiniteSets, TLC

(***************************************************************************)
(* Bounds of the model.                                                    *)
(***************************************************************************)
MaxPages == 2
MaxMatches == 2
MaxSpans == 2

(***************************************************************************)
(* Program constants.                                                      *)
(***************************************************************************)
MinFontSize == 10
DefaultMaxPagesToSearch == 10
ThresholdNum == 3
ThresholdDen == 10
WordMargin == 20
DupDx == 50
DupDy == 20
BoldFlag == 8

(***************************************************************************)
(* Geometry of the documents the model runs on.                            *)
(***************************************************************************)
Heights == {200}
Widths == {300}
MatchLeft == {50}
MatchWidth == {100}
BaseWidth == {70}
LineHeight == {10}
BodyTops == {175}

Rect(x0, y0, x1, y1) == [x0 |-> x0, y0 |-> y0, x1 |-> x1, y1 |-> y1]

Max(a, b) == IF a >= b THEN a ELSE b
Min(a, b) == IF a <= b THEN a ELSE b
Abs(a) == IF a >= 0 THEN a ELSE 0 - a

\* fitz.Rect.is_empty
IsEmpty(r) == r.x0 >= r.x1 \/ r.y0 >= r.y1

\* fitz.Rect.intersects: the two rectangles share a non-empty area
Intersects(a, b) ==
    /\ ~IsEmpty(a)
    /\ ~IsEmpty(b)
    /\ Max(a.x0, b.x0) < Min(a.x1, b.x1)
    /\ Max(a.y0, b.y0) < Min(a.y1, b.y1)

\* fitz.Rect.__bool__: false only for the all-zero rectangle
RectTruthy(r) == ~(r.x0 = 0 /\ r.y0 = 0 /\ r.x1 = 0 /\ r.y1 = 0)

(***************************************************************************)
(* The document library as the program uses it.  A page is a record        *)
(*   [height, width, matches, words]                                       *)
(* matches: the occurrences of the pattern in the page text, in text       *)
(*   order, each [rect, text, size, flags, font, lit]; rect is where       *)
(*   search_for finds the matched text, size/flags/font describe the span  *)
(*   that holds it, lit says whether the occurrence contains the literal   *)
(*   string "Sample Exercise" (the pattern also matches "SampleExercise"); *)
(* words: the rectangles of the body words of the page.                    *)
(***************************************************************************)
VARIABLE search_regex    \* page.search_for understands the pattern as a regex

\* any(ind in span["font"].lower() for ind in ["bold", "black"])
FontHasBoldIndicator(font) == font \in {"Helvetica-Bold", "Arial-Black"}

\* span["flags"] & 2**3
FlagBit3(flags) == (flags \div BoldFlag) % 2 = 1

MatchSpan(m) == [bbox |-> m.rect, size |-> m.size, flags |-> m.flags, font |-> m.font]
WordSpan(w) == [bbox |-> w, size |-> MinFontSize, flags |-> 0, font |-> "Helvetica"]

\* page.get_text("dict"): the spans of the page in block/line/span order
Spans(page) ==
    [i \in 1..(Len(page.matches) + Len(page.words)) |->
        IF i <= Len(page.matches)
        THEN MatchSpan(page.matches[i])
        ELSE WordSpan(page.words[i - Len(page.matches)])]

\* page.get_text("words"): the word rectangles of the page
PageWords(page) ==
    [i \in 1..(Len(page.matches) + Len(page.words)) |->
        IF i <= Len(page.matches)
        THEN page.matches[i].rect
        ELSE page.words[i - Len(page.matches)]]

\* page.search_for(pattern): the rectangles of the pattern matches on the page.
\* The bounds calculators hand the regular expression itself to search_for;
\* a library that searches for it as literal text (main.py lines 27-29) finds
\* it nowhere in a document that matches the expression.
SearchFor(page) ==
    IF search_regex
    THEN [i \in 1..Len(page.matches) |-> page.matches[i].rect]
    ELSE <<>>

\* the subsequence of s whose elements satisfy Test
RECURSIVE SelectSeqBy(_, _)
SelectSeqBy(s, keep) ==
    IF s = <<>> THEN <<>>
    ELSE IF Head(s) \in keep THEN <<Head(s)>> \o SelectSeqBy(Tail(s), keep)
    ELSE SelectSeqBy(Tail(s), keep)

\* page.search_for("Sample Exercise"): one hit per occurrence of the literal
BaseRect(m) == Rect(m.rect.x0, m.rect.y0, m.rect.x0 + m.base, m.rect.y1)
SearchForBase(page) ==
    LET lits == SelectSeqBy(page.matches, {m \in {page.matches[i] : i \in 1..Len(page.matches)} : m.lit})
    IN [i \in 1..Len(lits) |-> BaseRect(lits[i])]

\* page.search_for(matched_text): every occurrence of that text on the page
SearchForText(page, text) ==
    LET same == SelectSeqBy(page.matches, {m \in {page.matches[i] : i \in 1..Len(page.matches)} : m.text = text})
    IN [i \in 1..Len(same) |-> same[i].rect]

\* min(instances, key=lambda x: x.y0): the first element with the least y0
MinByY0(insts) ==
    LET least == CHOOSE i \in 1..Len(insts) :
            /\ \A j \in 1..Len(insts) : insts[i].y0 <= insts[j].y0
            /\ \A j \in 1..(i - 1) : insts[j].y0 > insts[i].y0
    IN insts[least]

InSeq(x, s) == \E i \in 1..Len(s) : s[i] = x

(***************************************************************************)
(* PDFExerciseExtractor._is_header_format                                  *)
(***************************************************************************)
\* the size test of line 271 accepting the minimum size itself
SpanIsHeaderSizeInclusive(span) ==
    /\ span.size >= MinFontSize
    /\ \/ FlagBit3(span.flags)
       \/ FontHasBoldIndicator(span.font)
       \/ span.size >= MinFontSize

SpanIsHeader(span) ==
    /\ span.size >= MinFontSize
    /\ \/ FlagBit3(span.flags)
       \/ FontHasBoldIndicator(span.font)
       \/ span.size > MinFontSize

PositionIsHeader(page, bbox) ==
    bbox.y0 * ThresholdDen < page.height * ThresholdNum

IsHeaderFormat(page, bbox) ==
    \/ \E i \in 1..Len(Spans(page)) :
          /\ Intersects(Spans(page)[i].bbox, bbox)
          /\ SpanIsHeader(Spans(page)[i])
    \/ PositionIsHeader(page, bbox)

(***************************************************************************)
(* PDFExerciseExtractor._find_exercise_headers                             *)
(***************************************************************************)
\* lines 206-214: the hits of one matched text that are headers and lie
\* close to the instance are appended unless already present
RECURSIVE AddPossible(_, _, _, _, _)
AddPossible(page, inst, possible, headers, near) ==
    IF possible = <<>> THEN headers
    ELSE LET p == Head(possible)
             take == /\ IsHeaderFormat(page, p)
                     /\ near => (Abs(p.x0 - inst.x0) < DupDx /\ Abs(p.y0 - inst.y0) < DupDy)
                     /\ ~InSeq(p, headers)
         IN AddPossible(page, inst, Tail(possible),
                        IF take THEN Append(headers, p) ELSE headers, near)

\* lines 201-214 and 224-234: every regex match of the page text in turn
RECURSIVE AddMatches(_, _, _, _, _)
AddMatches(page, inst, ms, headers, near) ==
    IF ms = <<>> THEN headers
    ELSE AddMatches(page, inst, Tail(ms),
                    AddPossible(page, inst, SearchForText(page, Head(ms).text), headers, near),
                    near)

\* lines 180-214: every hit of the base string in turn
RECURSIVE AddInstances(_, _, _)
AddInstances(page, insts, headers) ==
    IF insts = <<>> THEN headers
    ELSE LET inst == Head(insts)
             touched == \E i \in 1..Len(Spans(page)) : Intersects(Spans(page)[i].bbox, inst)
         IN AddInstances(page, Tail(insts),
                         IF touched
                         THEN AddMatches(page, inst, page.matches, headers, TRUE)
                         ELSE headers)

FindExerciseHeaders(page) ==
    LET first == AddInstances(page, SearchForBase(page), <<>>)
    IN IF first # <<>> THEN first
       ELSE AddMatches(page, Rect(0, 0, 0, 0), page.matches, <<>>, FALSE)


(***************************************************************************)
(* bbox_operations.calculate_section_bounds                                *)
(***************************************************************************)
\* lines 41-44 and 141-145: the instances strictly below the header
RECURSIVE Below(_, _)
Below(insts, header_bbox) ==
    IF insts = <<>> THEN <<>>
    ELSE IF Head(insts).y0 > header_bbox.y1
         THEN <<Head(insts)>> \o Below(Tail(insts), header_bbox)
         ELSE Below(Tail(insts), header_bbox)

\* lines 55-66: the first later page that has any instance, or -1
RECURSIVE NextPageWithInstance(_, _)
NextPageWithInstance(doc, next_page_num) ==
    IF next_page_num >= Len(doc) THEN 0 - 1
    ELSE IF SearchFor(doc[next_page_num + 1]) # <<>> THEN next_page_num
    ELSE NextPageWithInstance(doc, next_page_num + 1)

\* lines 74-79: the lowest bottom edge of the words below the header
RECURSIVE MaxBottom(_, _, _)
MaxBottom(words, header_bbox, max_bottom) ==
    IF words = <<>> THEN max_bottom
    ELSE MaxBottom(Tail(words), header_bbox,
                   IF Head(words).y0 > header_bbox.y1
                   THEN Max(max_bottom, Head(words).y1)
                   ELSE max_bottom)

SectionBottom(page, header_bbox, doc, page_num) ==
    LET remaining == Below(SearchFor(page), header_bbox)
        next_page_num == NextPageWithInstance(doc, page_num + 1)
        max_bottom == MaxBottom(PageWords(page), header_bbox, header_bbox.y1)
    IN IF remaining # <<>> THEN MinByY0(remaining).y0
       ELSE IF next_page_num >= 0 THEN MinByY0(SearchFor(doc[next_page_num + 1])).y0
       ELSE IF max_bottom > header_bbox.y1 THEN max_bottom + WordMargin
       ELSE page.height

\* the section started at the bottom edge of the header instead of its top
CalculateSectionBoundsBelowHeader(page, header_bbox, doc, page_num) ==
    Rect(0, header_bbox.y1, page.width, SectionBottom(page, header_bbox, doc, page_num))

CalculateSectionBounds(page, header_bbox, doc, page_num) ==
    Rect(0, header_bbox.y0, page.width, SectionBottom(page, header_bbox, doc, page_num))

(***************************************************************************)
(* bbox_operations.calculate_multiline_section_bounds                      *)
(***************************************************************************)
NoBounds == [found |-> FALSE, overall |-> Rect(0, 0, 0, 0), page_bounds |-> <<>>]

\* the section cut at the bottom of the header's page, later pages not visited
RECURSIVE CollectPageBoundsStartOnly(_, _, _, _, _)
CollectPageBoundsStartOnly(doc, header_bbox, start_page_num, current_page_num, stop) ==
    IF current_page_num >= stop THEN <<>>
    ELSE LET current_page == doc[current_page_num + 1]
             current_top == IF current_page_num = start_page_num THEN header_bbox.y0 ELSE 0
             relevant == IF current_page_num = start_page_num
                         THEN Below(SearchFor(current_page), header_bbox)
                         ELSE SearchFor(current_page)
         IN IF relevant # <<>>
            THEN << <<current_page_num,
                      Rect(0, current_top, current_page.width, MinByY0(relevant).y0)>> >>
            ELSE << <<current_page_num,
                      Rect(0, current_top, current_page.width, current_page.height)>> >>
                 \o CollectPageBoundsStartOnly(doc, header_bbox, start_page_num,
                                      stop, stop)

\* line 173 taking the page width for the bottom of an open page
RECURSIVE CollectPageBoundsWidthAsBottom(_, _, _, _, _)
CollectPageBoundsWidthAsBottom(doc, header_bbox, start_page_num, current_page_num, stop) ==
    IF current_page_num >= stop THEN <<>>
    ELSE LET current_page == doc[current_page_num + 1]
             current_top == IF current_page_num = start_page_num THEN header_bbox.y0 ELSE 0
             relevant == IF current_page_num = start_page_num
                         THEN Below(SearchFor(current_page), header_bbox)
                         ELSE SearchFor(current_page)
         IN IF relevant # <<>>
            THEN << <<current_page_num,
                      Rect(0, current_top, current_page.width, MinByY0(relevant).y0)>> >>
            ELSE << <<current_page_num,
                      Rect(0, current_top, current_page.width, current_page.width)>> >>
                 \o CollectPageBoundsWidthAsBottom(doc, header_bbox, start_page_num,
                                      current_page_num + 1, stop)

\* the loop without the break of line 165: scanning goes on past the next header
RECURSIVE CollectPageBoundsNoBreak(_, _, _, _, _)
CollectPageBoundsNoBreak(doc, header_bbox, start_page_num, current_page_num, stop) ==
    IF current_page_num >= stop THEN <<>>
    ELSE LET current_page == doc[current_page_num + 1]
             current_top == IF current_page_num = start_page_num THEN header_bbox.y0 ELSE 0
             relevant == IF current_page_num = start_page_num
                         THEN Below(SearchFor(current_page), header_bbox)
                         ELSE SearchFor(current_page)
         IN IF relevant # <<>>
            THEN << <<current_page_num,
                      Rect(0, current_top, current_page.width, MinByY0(relevant).y0)>> >>
                 \o CollectPageBoundsNoBreak(doc, header_bbox, start_page_num,
                                             current_page_num + 1, stop)
            ELSE << <<current_page_num,
                      Rect(0, current_top, current_page.width, current_page.height)>> >>
                 \o CollectPageBoundsNoBreak(doc, header_bbox, start_page_num,
                                      current_page_num + 1, stop)

\* lines 126-176: the loop over range(start, min(len(doc), start + max_pages))
RECURSIVE CollectPageBounds(_, _, _, _, _)
CollectPageBounds(doc, header_bbox, start_page_num, current_page_num, stop) ==
    IF current_page_num >= stop THEN <<>>
    ELSE LET current_page == doc[current_page_num + 1]
             current_top == IF current_page_num = start_page_num THEN header_bbox.y0 ELSE 0
             relevant == IF current_page_num = start_page_num
                         THEN Below(SearchFor(current_page), header_bbox)
                         ELSE SearchFor(current_page)
         IN IF relevant # <<>>
            THEN << <<current_page_num,
                      Rect(0, current_top, current_page.width, MinByY0(relevant).y0)>> >>
            ELSE << <<current_page_num,
                      Rect(0, current_top, current_page.width, current_page.height)>> >>
                 \o CollectPageBounds(doc, header_bbox, start_page_num,
                                      current_page_num + 1, stop)

\* the range of line 126 running one page too far
CalculateMultilineSectionBoundsOneMore(start_page, header_bbox, doc, start_page_num, max_pages) ==
    LET page_bounds == CollectPageBounds(doc, header_bbox, start_page_num, start_page_num,
                                         Min(Len(doc), start_page_num + max_pages + 1))
    IN IF page_bounds # <<>>
       THEN [found |-> TRUE,
             overall |-> Rect(0, header_bbox.y0, start_page.width,
                              page_bounds[Len(page_bounds)][2].y1),
             page_bounds |-> page_bounds]
       ELSE NoBounds

\* a result of a single page treated as no multi-page result
CalculateMultilineSectionBoundsManyOnly(start_page, header_bbox, doc, start_page_num, max_pages) ==
    LET page_bounds == CollectPageBounds(doc, header_bbox, start_page_num, start_page_num,
                                         Min(Len(doc), start_page_num + max_pages))
    IN IF Len(page_bounds) > 1
       THEN [found |-> TRUE,
             overall |-> Rect(0, header_bbox.y0, start_page.width,
                              page_bounds[Len(page_bounds)][2].y1),
             page_bounds |-> page_bounds]
       ELSE NoBounds

CalculateMultilineSectionBounds(start_page, header_bbox, doc, start_page_num, max_pages) ==
    LET page_bounds == CollectPageBounds(doc, header_bbox, start_page_num, start_page_num,
                                         Min(Len(doc), start_page_num + max_pages))
    IN IF page_bounds # <<>>
       THEN [found |-> TRUE,
             overall |-> Rect(0, header_bbox.y0, start_page.width,
                              page_bounds[Len(page_bounds)][2].y1),
             page_bounds |-> page_bounds]
       ELSE NoBounds


(***************************************************************************)
(* The documents the model runs on.                                        *)
(***************************************************************************)
Plain == [size |-> MinFontSize, flags |-> 0, font |-> "Helvetica", lit |-> TRUE]
Flagged == [size |-> MinFontSize, flags |-> BoldFlag, font |-> "Helvetica", lit |-> TRUE]
LargeJoined == [size |-> MinFontSize + 2, flags |-> 0, font |-> "Helvetica", lit |-> FALSE]

\* the pattern matches a page may hold, as (top edge, style): body-sized text
\* in the top part of the page, larger text written "SampleExercise" right
\* under it, and body-sized or flagged text further down
MatchKinds == {<<10, Plain>>, <<20, LargeJoined>>, <<60, Plain>>, <<60, Flagged>>}

\* (max_pages_to_search, preview_mode, search_regex)
Configs == {<<DefaultMaxPagesToSearch, FALSE, TRUE>>, <<DefaultMaxPagesToSearch, TRUE, TRUE>>,
            <<1, FALSE, TRUE>>, <<0, FALSE, TRUE>>,
            <<DefaultMaxPagesToSearch, FALSE, FALSE>>}

MatchAt(top, style) ==
    LET left == CHOOSE x \in MatchLeft : TRUE
        w == CHOOSE x \in MatchWidth : TRUE
        h == CHOOSE x \in LineHeight : TRUE
        b == CHOOSE x \in BaseWidth : TRUE
    IN [rect |-> Rect(left, top, left + w, top + h), text |-> top,
        size |-> style.size, flags |-> style.flags, font |-> style.font,
        lit |-> style.lit, base |-> b]

\* the sequences of at most n kinds of K with strictly ascending top edges, all
\* above bound
RECURSIVE KindSeqs(_, _, _)
KindSeqs(K, n, bound) ==
    {<<>>} \cup
    (IF n = 0 THEN {}
     ELSE UNION {{ks \o <<k>> : ks \in KindSeqs(K, n - 1, k[1])} :
                 k \in {q \in K : q[1] < bound}})

PageOf(h, w, ks, ws) ==
    [height |-> h, width |-> w,
     matches |-> [i \in 1..Len(ks) |-> MatchAt(ks[i][1], ks[i][2])],
     words |-> ws]

BodyWords == {<<Rect(50, t, 250, t + 10)>> : t \in BodyTops}

\* the pages without body text, and those with body text down the page
Pages(ws) ==
    {PageOf(h, w, ks, ws) :
        h \in Heights, w \in Widths, ks \in KindSeqs(MatchKinds, MaxMatches, 1000)}

RECURSIVE DocsOf(_, _)
DocsOf(n, ws) ==
    IF n = 0 THEN {<<>>}
    ELSE {<<pg>> \o d : pg \in Pages(ws), d \in DocsOf(n - 1, ws)}

Docs == UNION {DocsOf(n, ws) : n \in 0..MaxPages, ws \in {<<>>} \cup BodyWords}

(***************************************************************************)
(* State.                                                                  *)
(***************************************************************************)
VARIABLES
    input_exists,        \* os.path.exists(args.input_pdf)
    doc,                 \* input_doc: the pages of the input PDF
    max_pages_to_search, \* config.max_pages_to_search
    preview_mode,        \* config.preview_mode
    pc,                  \* position of the process
    input_open,          \* input_doc is open
    output_open,         \* output_doc is open
    output_doc,          \* the pages of output_doc
    extracted_count,     \* extracted_count
    page_num,            \* page_num of the outer loop
    exercise_bboxes,     \* the headers of the current page
    header_idx,          \* index in exercise_bboxes of the current header
    branch,              \* which calculator gave the bounds being copied
    multi_result,        \* multi_result of the current header
    section_bbox,        \* section_bbox of the current header
    pending,             \* the (page number, rectangle) pairs still to copy
    saved_file,          \* the file at output_path: <<>> when not written
    file_written,        \* the file at output_path has been written
    saves,               \* completed calls of output_doc.save
    printed,             \* what main printed
    exit_code,           \* exit status of the process, -1 while running
    section_sizes,       \* history: output pages of each section counted so far
    failed_at,           \* history: the step that raised, "none" if none did
    cls_pc,              \* classifier harness: position
    cls_page,            \* classifier harness: the page
    cls_bbox,            \* classifier harness: the candidate
    cls_result           \* classifier harness: result of _is_header_format

vars == <<search_regex, input_exists, doc, max_pages_to_search, preview_mode, pc, input_open,
          output_open, output_doc, extracted_count, page_num, exercise_bboxes,
          header_idx, branch, multi_result, section_bbox, pending, saved_file, file_written, saves, printed,
          exit_code, section_sizes, failed_at, cls_pc, cls_page, cls_bbox, cls_result>>

config_vars == <<search_regex, input_exists, doc, max_pages_to_search, preview_mode>>
cls_vars == <<cls_pc, cls_page, cls_bbox, cls_result>>
main_vars == <<printed, exit_code>>
hist_vars == <<section_sizes, failed_at>>
file_vars == <<saved_file, file_written, saves>>
loop_vars == <<page_num, exercise_bboxes, header_idx, branch, multi_result,
               section_bbox, pending>>

EmptyPage == [height |-> 0, width |-> 0, matches |-> <<>>, words |-> <<>>]

ClsIdle ==
    /\ cls_pc = "idle"
    /\ cls_page = EmptyPage
    /\ cls_bbox = Rect(0, 0, 0, 0)
    /\ cls_result = FALSE

InitProcess ==
    /\ pc = "main"
    /\ input_open = FALSE
    /\ output_open = FALSE
    /\ output_doc = <<>>
    /\ extracted_count = 0
    /\ page_num = 0
    /\ exercise_bboxes = <<>>
    /\ header_idx = 0
    /\ branch = "none"
    /\ multi_result = NoBounds
    /\ section_bbox = Rect(0, 0, 0, 0)
    /\ pending = <<>>
    /\ saved_file = <<>>
    /\ file_written = FALSE
    /\ saves = 0
    /\ printed = <<>>
    /\ exit_code = 0 - 1
    /\ section_sizes = <<>>
    /\ failed_at = "none"

Init ==
    /\ \/ /\ input_exists = TRUE
          /\ doc \in Docs
          /\ \E c \in Configs :
                /\ max_pages_to_search = c[1]
                /\ preview_mode = c[2]
                /\ search_regex = c[3]
       \/ /\ input_exists = FALSE
          /\ doc = <<>>
          /\ search_regex = TRUE
          /\ max_pages_to_search = DefaultMaxPagesToSearch
          /\ preview_mode = FALSE
    /\ InitProcess
    /\ ClsIdle


(***************************************************************************)
(* src/main.py: main                                                       *)
(***************************************************************************)
\* lines 45-47: the input path does not exist
MainInputMissing ==
    /\ pc = "main"
    /\ ~input_exists
    /\ printed' = Append(printed, "input_missing")
    /\ exit_code' = 1
    /\ pc' = "exited"
    /\ UNCHANGED <<hist_vars, config_vars, cls_vars, file_vars, loop_vars,
                   input_open, output_open, output_doc, extracted_count>>

\* lines 49-60 of main and 51-62 of extract_exercises: both documents opened
OpenDocuments ==
    /\ pc = "main"
    /\ input_exists
    /\ printed' = Append(printed, "extracting")
    /\ input_open' = TRUE
    /\ output_open' = TRUE
    /\ output_doc' = <<>>
    /\ extracted_count' = 0
    /\ page_num' = 0
    /\ pc' = "page_loop"
    /\ UNCHANGED <<hist_vars, config_vars, cls_vars, file_vars, exit_code,
                   exercise_bboxes, header_idx, branch, multi_result, section_bbox, pending>>

(***************************************************************************)
(* PDFExerciseExtractor.extract_exercises                                  *)
(***************************************************************************)
\* lines 65-69: next page of the loop, its headers found
ScanPage ==
    /\ pc = "page_loop"
    /\ page_num < Len(doc)
    /\ exercise_bboxes' = FindExerciseHeaders(doc[page_num + 1])
    /\ header_idx' = 1
    /\ pc' = "header_loop"
    /\ UNCHANGED <<hist_vars, config_vars, cls_vars, file_vars, main_vars, input_open, output_open,
                   output_doc, extracted_count, page_num, branch, multi_result,
                   section_bbox, pending>>

\* lines 72-85 and 111-122: bounds of the next header of the page
ComputeBounds ==
    /\ pc = "header_loop"
    /\ header_idx <= Len(exercise_bboxes)
    /\ LET header_bbox == exercise_bboxes[header_idx]
           page == doc[page_num + 1]
           multi == CalculateMultilineSectionBounds(page, header_bbox, doc, page_num,
                                                    max_pages_to_search)
           single == CalculateSectionBounds(page, header_bbox, doc, page_num)
       IN /\ multi_result' = multi
          /\ IF multi.found
             THEN /\ branch' = "multi"
                  /\ pending' = multi.page_bounds
                  /\ pc' = "copy"
                  /\ UNCHANGED <<header_idx, section_bbox>>
             ELSE /\ section_bbox' = single
                  /\ IF RectTruthy(single)
                     THEN /\ branch' = "single"
                          /\ pending' = << <<page_num, single>> >>
                          /\ pc' = "copy"
                          /\ UNCHANGED header_idx
                     ELSE /\ header_idx' = header_idx + 1
                          /\ UNCHANGED <<branch, pending, pc>>
    /\ UNCHANGED <<hist_vars, config_vars, cls_vars, file_vars, main_vars, input_open, output_open,
                   output_doc, extracted_count, page_num, exercise_bboxes>>

NoOverlay == [ex |-> 0, page |-> 0]

\* lines 104-106 and 135-137: the label add_preview_overlay draws
Overlay(current_page_num) ==
    IF ~preview_mode THEN NoOverlay
    ELSE IF branch = "multi"
    THEN [ex |-> extracted_count + 1, page |-> current_page_num + 1]
    ELSE [ex |-> extracted_count + 1, page |-> 0]

\* the new page put in front of the others, as new_page(0) would
NewPageAtFront(out, current_page_num, bbox, overlay) ==
    <<[src |-> current_page_num, clip |-> bbox, overlay |-> overlay]>> \o out

\* output_doc.new_page(-1) followed by show_pdf_page(..., clip=bbox)
NewPage(out, current_page_num, bbox, overlay) ==
    Append(out, [src |-> current_page_num, clip |-> bbox, overlay |-> overlay])

\* lines 89-106 and 124-137: one region copied to a new page of the output
CopyPage ==
    /\ pc = "copy"
    /\ pending # <<>>
    /\ output_doc' = NewPage(output_doc, Head(pending)[1], Head(pending)[2],
                             Overlay(Head(pending)[1]))
    /\ pending' = Tail(pending)
    /\ UNCHANGED <<hist_vars, config_vars, cls_vars, file_vars, main_vars, input_open, output_open,
                   extracted_count, page_num, exercise_bboxes, header_idx, branch,
                   multi_result, section_bbox, pc>>

\* the count raised by the number of pages the section produced
FinishSectionPerPage ==
    /\ pc = "copy"
    /\ pending = <<>>
    /\ extracted_count' = extracted_count +
            (IF branch = "multi" THEN Len(multi_result.page_bounds) ELSE 1)
    /\ header_idx' = header_idx + 1
    /\ section_sizes' = Append(section_sizes,
            IF branch = "multi" THEN Len(multi_result.page_bounds) ELSE 1)
    /\ branch' = "none"
    /\ pc' = "header_loop"
    /\ UNCHANGED <<failed_at, config_vars, cls_vars, file_vars, main_vars, input_open, output_open,
                   output_doc, page_num, exercise_bboxes, multi_result, section_bbox,
                   pending>>

\* lines 110 and 139: the section is counted once its pages are copied
FinishSection ==
    /\ pc = "copy"
    /\ pending = <<>>
    /\ extracted_count' = extracted_count + 1
    /\ header_idx' = header_idx + 1
    /\ section_sizes' = Append(section_sizes,
            IF branch = "multi" THEN Len(multi_result.page_bounds) ELSE 1)
    /\ branch' = "none"
    /\ pc' = "header_loop"
    /\ UNCHANGED <<failed_at, config_vars, cls_vars, file_vars, main_vars, input_open, output_open,
                   output_doc, page_num, exercise_bboxes, multi_result, section_bbox,
                   pending>>

\* line 72 exhausted: on to the next page
NextPage ==
    /\ pc = "header_loop"
    /\ header_idx > Len(exercise_bboxes)
    /\ page_num' = page_num + 1
    /\ pc' = "page_loop"
    /\ UNCHANGED <<hist_vars, config_vars, cls_vars, file_vars, main_vars, input_open, output_open,
                   output_doc, extracted_count, exercise_bboxes, header_idx, branch,
                   multi_result, section_bbox, pending>>

\* line 65 exhausted
LoopDone ==
    /\ pc = "page_loop"
    /\ page_num >= Len(doc)
    /\ pc' = "save"
    /\ UNCHANGED <<hist_vars, config_vars, cls_vars, file_vars, main_vars, loop_vars, input_open,
                   output_open, output_doc, extracted_count>>

\* lines 150-154: output_doc.save writes the file
Save ==
    /\ pc = "save"
    /\ Len(output_doc) > 0
    /\ saved_file' = output_doc
    /\ file_written' = TRUE
    /\ saves' = saves + 1
    /\ pc' = "close"
    /\ UNCHANGED <<hist_vars, config_vars, cls_vars, main_vars, loop_vars, input_open, output_open,
                   output_doc, extracted_count>>

\* lines 150-154: Document.save refuses a document without pages
\* (PyMuPDF raises ValueError "cannot save with zero pages")
SaveZeroPages ==
    /\ pc = "save"
    /\ Len(output_doc) = 0
    /\ failed_at' = "save"
    /\ pc' = "raised"
    /\ UNCHANGED <<section_sizes, config_vars, cls_vars, file_vars, main_vars, loop_vars, input_open,
                   output_open, output_doc, extracted_count>>

\* lines 155-158: both documents closed, the count returned
CloseAndReturn ==
    /\ pc = "close"
    /\ output_open' = FALSE
    /\ input_open' = FALSE
    /\ pc' = "returned"
    /\ UNCHANGED <<hist_vars, config_vars, cls_vars, file_vars, main_vars, loop_vars,
                   output_doc, extracted_count>>

\* the failure handled by a finally block that saves what was collected
RaiseSavingOutput ==
    /\ \/ pc = "page_loop" /\ page_num < Len(doc) /\ failed_at' = "scan"
       \/ pc = "header_loop" /\ header_idx <= Len(exercise_bboxes) /\ failed_at' = "bounds"
       \/ pc = "copy" /\ pending # <<>> /\ failed_at' = "copy"
    /\ saved_file' = output_doc
    /\ file_written' = TRUE
    /\ saves' = saves + 1
    /\ pc' = "raised"
    /\ UNCHANGED <<section_sizes, config_vars, cls_vars, main_vars, loop_vars, input_open,
                   output_open, output_doc, extracted_count>>

\* a library call of the page iteration raises: header detection (line 69),
\* bounds calculation (lines 74-81, 113-119) or the clip copy (lines 93-101,
\* 124-132); nothing in extract_exercises catches it
Raise ==
    /\ \/ pc = "page_loop" /\ page_num < Len(doc) /\ failed_at' = "scan"
       \/ pc = "header_loop" /\ header_idx <= Len(exercise_bboxes) /\ failed_at' = "bounds"
       \/ pc = "copy" /\ pending # <<>> /\ failed_at' = "copy"
    /\ pc' = "raised"
    /\ UNCHANGED <<section_sizes, config_vars, cls_vars, file_vars, main_vars, loop_vars, input_open,
                   output_open, output_doc, extracted_count>>

(***************************************************************************)
(* src/main.py: main, after extract_exercises                              *)
(***************************************************************************)
\* lines 62-68
MainReport ==
    /\ pc = "returned"
    /\ printed' = printed \o <<"success">> \o
                  (IF extracted_count = 0 THEN <<"warning_no_sections">> ELSE <<"completed">>)
    /\ exit_code' = 0
    /\ pc' = "exited"
    /\ UNCHANGED <<hist_vars, config_vars, cls_vars, file_vars, loop_vars, input_open, output_open,
                   output_doc, extracted_count>>

\* lines 70-72
MainExcept ==
    /\ pc = "raised"
    /\ printed' = Append(printed, "error")
    /\ exit_code' = 1
    /\ pc' = "exited"
    /\ UNCHANGED <<hist_vars, config_vars, cls_vars, file_vars, loop_vars, input_open, output_open,
                   output_doc, extracted_count>>

Next ==
    \/ MainInputMissing
    \/ OpenDocuments
    \/ ScanPage
    \/ ComputeBounds
    \/ CopyPage
    \/ FinishSection
    \/ NextPage
    \/ LoopDone
    \/ Save
    \/ SaveZeroPages
    \/ CloseAndReturn
    \/ Raise
    \/ MainReport
    \/ MainExcept

Spec == Init /\ [][Next]_vars


(***************************************************************************)
(* _is_header_format on its own: a page of a few spans, one candidate.     *)
(***************************************************************************)
ClsStyles == {Plain, Flagged, LargeJoined,
              [size |-> MinFontSize, flags |-> 0, font |-> "Helvetica-Bold", lit |-> TRUE],
              [size |-> MinFontSize, flags |-> 0, font |-> "Arial-Black", lit |-> TRUE],
              [size |-> MinFontSize - 1, flags |-> BoldFlag, font |-> "Helvetica-Bold", lit |-> TRUE]}
ClsHeights == {100, 200}
ClsSpanTops == {10, 25, 60}
ClsCandidateTops == {10, 29, 30, 59, 60}

ClsPages ==
    {PageOf(h, w, ks, <<>>) :
        h \in ClsHeights, w \in Widths,
        ks \in KindSeqs(ClsSpanTops \X ClsStyles, MaxSpans, 1000)}

ClsCandidates == {MatchAt(t, Plain).rect : t \in ClsCandidateTops}

InitClassify ==
    /\ input_exists = FALSE
    /\ doc = <<>>
    /\ search_regex = TRUE
    /\ max_pages_to_search = DefaultMaxPagesToSearch
    /\ preview_mode = FALSE
    /\ InitProcess
    /\ cls_pc = "ready"
    /\ cls_page \in ClsPages
    /\ cls_bbox \in ClsCandidates
    /\ cls_result = FALSE

\* one call of _is_header_format(page, bbox)
Classify ==
    /\ cls_pc = "ready"
    /\ cls_result' = IsHeaderFormat(cls_page, cls_bbox)
    /\ cls_pc' = "done"
    /\ UNCHANGED <<hist_vars, config_vars, main_vars, file_vars, loop_vars, pc, input_open,
                   output_open, output_doc, extracted_count, cls_page, cls_bbox>>

NextClassify == Classify

SpecClassify == InitClassify /\ [][NextClassify]_vars


(***************************************************************************)
(* Properties.                                                             *)
(***************************************************************************)
IntersectingSpans(page, bbox) ==
    {i \in 1..Len(Spans(page)) : Intersects(Spans(page)[i].bbox, bbox)}

AllIntersectingPlainMin(page, bbox) ==
    \A i \in IntersectingSpans(page, bbox) :
        /\ Spans(page)[i].size = MinFontSize
        /\ ~FlagBit3(Spans(page)[i].flags)
        /\ ~FontHasBoldIndicator(Spans(page)[i].font)

\* C8: a candidate whose intersecting spans all have exactly the minimum font
\* size, no bold flag and no bold/black font name is classified as a header
\* exactly when its top edge is above header_detection_threshold times the
\* page height.
C8_MinSizePlainOnlyByPosition ==
    (cls_pc = "done" /\ AllIntersectingPlainMin(cls_page, cls_bbox))
        => (cls_result <=> (cls_bbox.y0 * ThresholdDen < cls_page.height * ThresholdNum))

\* a candidate lying on a plain minimum-size span, below the threshold, rejected
C8_Witness ==
    /\ cls_pc = "done"
    /\ AllIntersectingPlainMin(cls_page, cls_bbox)
    /\ IntersectingSpans(cls_page, cls_bbox) # {}
    /\ cls_bbox.y0 * ThresholdDen >= cls_page.height * ThresholdNum
    /\ ~cls_result


\* the (page number, rectangle) pairs the calculators give for one header:
\* those of the multi-page calculator, else the single-page rectangle
PairsOf(page_index, header_bbox) ==
    LET page == doc[page_index + 1]
        multi == CalculateMultilineSectionBounds(page, header_bbox, doc, page_index,
                                                 max_pages_to_search)
        single == CalculateSectionBounds(page, header_bbox, doc, page_index)
    IN IF multi.found THEN multi.page_bounds
       ELSE IF RectTruthy(single) THEN << <<page_index, single>> >>
       ELSE <<>>

RECURSIVE PairsOfHeaders(_, _)
PairsOfHeaders(page_index, headers) ==
    IF headers = <<>> THEN <<>>
    ELSE PairsOf(page_index, Head(headers)) \o PairsOfHeaders(page_index, Tail(headers))

\* the pairs of all sections of the pages from page_index on, in document order
RECURSIVE PairsFrom(_)
PairsFrom(page_index) ==
    IF page_index >= Len(doc) THEN <<>>
    ELSE PairsOfHeaders(page_index, FindExerciseHeaders(doc[page_index + 1]))
         \o PairsFrom(page_index + 1)

RECURSIVE CountYielding(_, _)
CountYielding(page_index, headers) ==
    IF headers = <<>> THEN 0
    ELSE (IF PairsOf(page_index, Head(headers)) # <<>> THEN 1 ELSE 0)
         + CountYielding(page_index, Tail(headers))

\* the headers of the pages below page_index that yield bounds
RECURSIVE YieldingBelow(_)
YieldingBelow(page_index) ==
    IF page_index <= 0 THEN 0
    ELSE CountYielding(page_index - 1, FindExerciseHeaders(doc[page_index]))
         + YieldingBelow(page_index - 1)

\* the pattern matches classified as headers on the pages below page_index
RECURSIVE HeadersBelow(_)
HeadersBelow(page_index) ==
    IF page_index <= 0 THEN 0
    ELSE Len(FindExerciseHeaders(doc[page_index])) + HeadersBelow(page_index - 1)

C1_CountInv ==
    /\ extracted_count \in Nat
    /\ pc = "main" => extracted_count = 0
    /\ pc = "returned" =>
          /\ extracted_count = YieldingBelow(Len(doc))
          /\ extracted_count <= HeadersBelow(Len(doc))

C1_CountStep ==
    \/ extracted_count' = extracted_count
    \/ /\ extracted_count' = extracted_count + 1
       /\ pc = "copy"
       /\ pending = <<>>
       /\ header_idx' = header_idx + 1
       /\ PairsOf(page_num, exercise_bboxes[header_idx]) # <<>>

\* C1: the section count starts at 0, never decreases, grows by exactly one
\* for each confirmed header that yields bounds, once the pages of that header
\* are copied, and never exceeds the number of pattern matches classified as
\* headers in the document.
C1_CountOncePerSection == [](C1_CountInv) /\ [][C1_CountStep]_vars

\* a run that returned a count below its number of output pages, from a
\* document that also holds a pattern match that is not a header
C1_Witness ==
    /\ pc = "returned"
    /\ extracted_count >= 2
    /\ Len(output_doc) > extracted_count
    /\ \E p \in 1..Len(doc) : Len(FindExerciseHeaders(doc[p])) < Len(doc[p].matches)

SrcAndClip(out) == [i \in 1..Len(out) |-> <<out[i].src, out[i].clip>>]

C2_OutputInv ==
    /\ saves <= 1
    /\ saves = 0 => ~file_written
    /\ pc \in {"page_loop", "header_loop", "copy", "save"} => saves = 0
    /\ pc \in {"close", "returned"} \/ exit_code = 0 =>
          /\ saves = 1
          /\ saved_file = output_doc
    /\ pc = "returned" => SrcAndClip(output_doc) = PairsFrom(0)

C2_OutputStep ==
    /\ page_num' \in {page_num, page_num + 1}
    /\ page_num' = page_num /\ pc # "page_loop" => header_idx' \in {header_idx, header_idx + 1}
    /\ output_doc' # output_doc =>
          /\ saves = 0
          /\ Len(output_doc') = Len(output_doc) + 1
          /\ SubSeq(output_doc', 1, Len(output_doc)) = output_doc
          /\ output_doc'[Len(output_doc')].src >= page_num
    /\ saves' # saves => saves' = saves + 1 /\ pc = "save" /\ pending = <<>>

\* C2: pages are processed in ascending page index and the headers of a page
\* in discovery order; the output document changes only by appending a page;
\* when extract_exercises returns, the output is the concatenation, in that
\* order, of one page per (page index, rectangle) pair of each section, and
\* it has been saved exactly once, after the last append.
C2_AppendOnlyInOrder == [](C2_OutputInv) /\ [][C2_OutputStep]_vars

\* a returned run whose output holds pages of two sections of one page and of
\* a section of another page
C2_Witness ==
    /\ pc = "returned"
    /\ saves = 1
    /\ Len(output_doc) >= 3
    /\ \E p \in 1..Len(doc) : Len(FindExerciseHeaders(doc[p])) >= 2
    /\ \E i, j \in 1..Len(output_doc) : output_doc[i].src # output_doc[j].src


\* the header whose bounds were just computed, and its page
CurrentHeader == exercise_bboxes[header_idx]
CurrentPage == doc[page_num + 1]

\* the pattern matches of the page that lie strictly below the header
MatchesBelow(page, header_bbox) ==
    {i \in 1..Len(SearchFor(page)) : SearchFor(page)[i].y0 > header_bbox.y1}

\* the pages the multi-page calculator scans for a header of page page_num
ScannedPages == page_num..(Min(Len(doc), page_num + max_pages_to_search) - 1)

\* no match strictly below the header on its page, none on the later pages scanned
Unterminated ==
    /\ MatchesBelow(CurrentPage, CurrentHeader) = {}
    /\ \A q \in ScannedPages : q > page_num => SearchFor(doc[q + 1]) = <<>>

RectsOfUnterminated(n) ==
    /\ Len(multi_result.page_bounds) = n
    /\ \A i \in 1..Len(multi_result.page_bounds) :
          LET r == multi_result.page_bounds[i][2]
              pg == doc[multi_result.page_bounds[i][1] + 1]
          IN /\ r.x0 = 0
             /\ r.x1 = pg.width
             /\ r.y0 = (IF i = 1 THEN CurrentHeader.y0 ELSE 0)

\* C3 as stated: a section that does not terminate within the pages scanned
\* gets exactly max_pages_to_search page rectangles.
C3_Original ==
    (pc = "copy" /\ branch = "multi" /\ Unterminated)
        => RectsOfUnterminated(max_pages_to_search)

\* C3: a section that does not terminate within the pages scanned gets one
\* rectangle per page scanned, that is min(max_pages_to_search, pages from the
\* header's page to the end of the document) rectangles, each of full page
\* width, the first with its top at the header's top, the others at 0.
C3_OneRectPerScannedPage ==
    (pc = "copy" /\ branch = "multi" /\ Unterminated)
        => RectsOfUnterminated(Min(max_pages_to_search, Len(doc) - page_num))

\* an unterminated section cut off by max_pages_to_search before the document ends
C3_Witness ==
    /\ pc = "copy"
    /\ branch = "multi"
    /\ Unterminated
    /\ Len(doc) - page_num > max_pages_to_search
    /\ Len(multi_result.page_bounds) = max_pages_to_search

\* a match strictly below the header on its page, no header on a later page
NextOnSamePage ==
    /\ MatchesBelow(CurrentPage, CurrentHeader) # {}
    /\ \A q \in (page_num + 1)..(Len(doc) - 1) : FindExerciseHeaders(doc[q + 1]) = <<>>

NearestBelow ==
    LET below == MatchesBelow(CurrentPage, CurrentHeader)
        least == CHOOSE i \in below : \A j \in below :
                    SearchFor(CurrentPage)[i].y0 <= SearchFor(CurrentPage)[j].y0
    IN SearchFor(CurrentPage)[least]

\* C4 as stated: the single-page rectangle runs from the header's top to the
\* top of the nearest match below it and ends at that match's right edge.
C4_Original ==
    (pc = "copy" /\ branch = "single" /\ NextOnSamePage) =>
        /\ section_bbox.y0 = CurrentHeader.y0
        /\ section_bbox.y1 = NearestBelow.y0
        /\ section_bbox.x1 = NearestBelow.x1

\* C4: the single-page rectangle runs from the header's top to the top of the
\* nearest match below it, and from the left to the right edge of the page.
C4_BottomAtNextFullWidth ==
    (pc = "copy" /\ branch = "single" /\ NextOnSamePage) =>
        /\ section_bbox.y0 = CurrentHeader.y0
        /\ section_bbox.y1 = NearestBelow.y0
        /\ section_bbox.x0 = 0
        /\ section_bbox.x1 = CurrentPage.width

\* the single-page calculator used for a header with a match below it that is
\* narrower than the page
C4_Witness ==
    /\ pc = "copy"
    /\ branch = "single"
    /\ NextOnSamePage
    /\ NearestBelow.x1 < CurrentPage.width
    /\ section_bbox.y1 = NearestBelow.y0

InsidePage(r, pg) ==
    /\ r.y0 >= 0
    /\ r.y1 <= pg.height
    /\ r.x0 >= 0
    /\ r.x1 <= pg.width

\* C5: every rectangle a bounds calculator returns lies inside its page, and a
\* multi-page result is a non-empty run of consecutive pages starting at the
\* header's page.
C5_Original ==
    /\ (pc = "copy" /\ branch = "single") => InsidePage(section_bbox, CurrentPage)
    /\ (pc = "copy" /\ branch = "multi") =>
          /\ multi_result.page_bounds # <<>>
          /\ \A i \in 1..Len(multi_result.page_bounds) :
                /\ multi_result.page_bounds[i][1] = page_num + i - 1
                /\ InsidePage(multi_result.page_bounds[i][2],
                              doc[multi_result.page_bounds[i][1] + 1])


\* page 1 holds two matches, page 2 one match below its top, all three
\* classified as headers, default configuration
TwoPageScenario ==
    /\ Len(doc) = 2
    /\ max_pages_to_search = DefaultMaxPagesToSearch
    /\ ~preview_mode
    /\ Len(doc[1].matches) = 2
    /\ Len(doc[2].matches) = 1
    /\ doc[1].matches[1].rect.y1 <= doc[1].matches[2].rect.y0
    /\ doc[2].matches[1].rect.y0 > 0
    /\ FindExerciseHeaders(doc[1]) = <<doc[1].matches[1].rect, doc[1].matches[2].rect>>
    /\ FindExerciseHeaders(doc[2]) = <<doc[2].matches[1].rect>>

\* C6 as stated: in the two-page scenario the count is 2 and the second
\* section produces two output pages.
C6_Original ==
    (pc = "returned" /\ TwoPageScenario) =>
        /\ extracted_count = 2
        /\ section_sizes[2] = 2

\* C6: in the two-page scenario the count is 3, one per header (the section of
\* the header on page 2 is extracted too), and the second section produces
\* exactly two output pages.
C6_ThreeSectionsSecondOfTwoPages ==
    (pc = "returned" /\ TwoPageScenario) =>
        /\ extracted_count = 3
        /\ Len(section_sizes) = 3
        /\ section_sizes[2] = 2

\* the scenario run to its return, the second section ending at the header of page 2
C6_Witness ==
    /\ pc = "returned"
    /\ TwoPageScenario
    /\ search_regex
    /\ Len(output_doc) = 4
    /\ output_doc[3].src = 1
    /\ output_doc[3].clip.y1 = doc[2].matches[1].rect.y0

\* one page, one match in the top part of the page classified as a header,
\* body words below it, default configuration
OnePageScenario ==
    /\ Len(doc) = 1
    /\ max_pages_to_search = DefaultMaxPagesToSearch
    /\ ~preview_mode
    /\ Len(doc[1].matches) = 1
    /\ doc[1].matches[1].rect.y0 * ThresholdDen < doc[1].height * ThresholdNum
    /\ FindExerciseHeaders(doc[1]) = <<doc[1].matches[1].rect>>
    /\ \E i \in 1..Len(doc[1].words) : doc[1].words[i].y0 > doc[1].matches[1].rect.y1

LowestWordBottom(page) ==
    LET bottoms == {page.words[i].y1 : i \in 1..Len(page.words)}
    IN CHOOSE b \in bottoms : \A c \in bottoms : c <= b

\* C7 as stated: in the one-page scenario one section is extracted and its
\* rectangle ends at the lowest word's bottom plus the margin.
C7_Original ==
    (pc = "returned" /\ OnePageScenario) =>
        /\ extracted_count = 1
        /\ Len(output_doc) = 1
        /\ output_doc[1].clip.y1 = LowestWordBottom(doc[1]) + WordMargin

\* C7: in the one-page scenario one section is extracted, as one output page,
\* and its rectangle runs from the header's top to the page height (the
\* multi-page calculator gives the bounds; the word probe is not used).
C7_OneSectionToPageBottom ==
    (pc = "returned" /\ OnePageScenario) =>
        /\ extracted_count = 1
        /\ Len(output_doc) = 1
        /\ output_doc[1].src = 0
        /\ output_doc[1].clip.y0 = doc[1].matches[1].rect.y0
        /\ output_doc[1].clip.y1 = doc[1].height

\* the scenario run to its return, with the word probe's value off the page height
C7_Witness ==
    /\ pc = "returned"
    /\ OnePageScenario
    /\ LowestWordBottom(doc[1]) + WordMargin # doc[1].height
    /\ Len(output_doc) = 1

ZeroMatches ==
    /\ input_exists
    /\ \A p \in 1..Len(doc) : doc[p].matches = <<>>

\* C9: for a document without any pattern match, when no library call of the
\* page iteration fails, the process ends with count 0, an output of zero
\* pages, the no-sections warning printed and exit code 0.
C9_Original ==
    (pc = "exited" /\ ZeroMatches /\ failed_at \notin {"scan", "bounds", "copy"}) =>
        /\ extracted_count = 0
        /\ Len(output_doc) = 0
        /\ InSeq("warning_no_sections", printed)
        /\ exit_code = 0

IterationFailed == failed_at \in {"scan", "bounds", "copy"}

C10_Inv ==
    /\ IterationFailed =>
          /\ saves = 0
          /\ ~file_written
          /\ saved_file = <<>>
          /\ pc \in {"raised", "exited"}
          /\ pc = "exited" => exit_code = 1
    /\ (pc = "exited" /\ input_exists) =>
          \/ /\ exit_code = 0
             /\ file_written
             /\ saved_file = output_doc
             /\ failed_at = "none"
          \/ /\ exit_code = 1
             /\ ~file_written

C10_Step ==
    pc = "raised" => (pc' = "exited" /\ exit_code' = 1 /\ UNCHANGED file_vars)

\* C10: once a step of the page iteration has failed the output document is
\* never saved; at exit the file at output_path is either the complete output
\* of a run that returned or not written at all, and after a failure the exit
\* code is 1.
C10_OutputAtomic == [](C10_Inv) /\ [][C10_Step]_vars

\* a run that failed in a clip copy after pages had been collected, exited
C10_Witness ==
    /\ pc = "exited"
    /\ failed_at = "copy"
    /\ Len(output_doc) >= 1
    /\ exit_code = 1
    /\ ~file_written


\* C11: whenever extract_exercises has been left, by its return or by an
\* error raised during the page iteration or during save, the input document
\* and the output document it opened are both closed.
C11_Original ==
    (input_exists /\ pc \in {"returned", "raised", "exited"}) =>
        /\ ~input_open
        /\ ~output_open


C12_Inv ==
    pc = "copy" =>
        /\ branch \in {"multi", "single"}
        /\ (branch = "multi") <=> multi_result.found
        /\ multi_result.found <=> (multi_result.page_bounds # <<>>)
        /\ ~multi_result.found => ScannedPages = {}
        /\ max_pages_to_search >= 1 => branch = "multi"

C12_Step ==
    output_doc' # output_doc =>
        LET new == output_doc'[Len(output_doc')]
        IN /\ pc = "copy"
           /\ branch = "multi" =>
                 \E i \in 1..Len(multi_result.page_bounds) :
                     multi_result.page_bounds[i] = <<new.src, new.clip>>
           /\ branch = "single" =>
                 /\ ~multi_result.found
                 /\ <<new.src, new.clip>> = <<page_num, section_bbox>>

\* C12: for each confirmed header the output pages come from one calculator:
\* the multi-page result whenever it is non-empty, the single-page rectangle
\* only when the multi-page calculator returned nothing; it returns nothing
\* only when it scanned no page, which does not happen when
\* max_pages_to_search >= 1, so the single-page branch is then never taken.
C12_OneCalculatorPerHeader == [](C12_Inv) /\ [][C12_Step]_vars

\* a header whose multi-page result is a single page, with pages copied from it
C12_Witness ==
    /\ pc = "copy"
    /\ branch = "multi"
    /\ max_pages_to_search >= 1
    /\ Len(multi_result.page_bounds) = 1
    /\ pending = <<>>
    /\ Len(output_doc) >= 1


\* the matches of scanned page q that can end the section of the current
\* header: those strictly below the header on its own page, all on a later page
QualifyingOn(q) ==
    IF q = page_num THEN MatchesBelow(CurrentPage, CurrentHeader)
    ELSE 1..Len(SearchFor(doc[q + 1]))

LeastQualifyingTop(q) ==
    LET tops == {SearchFor(doc[q + 1])[i].y0 : i \in QualifyingOn(q)}
    IN CHOOSE t \in tops : \A u \in tops : t <= u

\* C13: the multi-page calculator stops at the first scanned page that has a
\* qualifying match: that page is the last entry and its rectangle ends at the
\* smallest top edge of the qualifying matches on it; every earlier entry is a
\* page without a qualifying match whose rectangle ends at the page height;
\* the overall rectangle runs from the header's top to the bottom of the last
\* entry's rectangle.
C13_StopsAtFirstTerminator ==
    (pc = "copy" /\ branch = "multi") =>
        LET pb == multi_result.page_bounds
            last == pb[Len(pb)]
        IN /\ \A i \in 1..Len(pb) :
                 /\ pb[i][1] = page_num + i - 1
                 /\ pb[i][1] \in ScannedPages
           /\ \A i \in 1..(Len(pb) - 1) :
                 /\ QualifyingOn(pb[i][1]) = {}
                 /\ pb[i][2].y1 = doc[pb[i][1] + 1].height
           /\ (\E q \in ScannedPages : QualifyingOn(q) # {}) =>
                 /\ QualifyingOn(last[1]) # {}
                 /\ last[2].y1 = LeastQualifyingTop(last[1])
           /\ multi_result.overall.y0 = CurrentHeader.y0
           /\ multi_result.overall.y1 = last[2].y1

\* a section that runs over the rest of its page and ends at a match on the next page
C13_Witness ==
    /\ pc = "copy"
    /\ branch = "multi"
    /\ Len(multi_result.page_bounds) >= 2
    /\ QualifyingOn(multi_result.page_bounds[Len(multi_result.page_bounds)][1]) # {}
    /\ multi_result.overall.y1 < CurrentPage.height


\* C14: every rectangle a bounds calculator hands back has positive height:
\* the rectangle of calculate_section_bounds and every page rectangle of
\* calculate_multiline_section_bounds has its bottom strictly below its top.
C14_Original ==
    pc = "copy" =>
        /\ branch = "single" => section_bbox.y1 > section_bbox.y0
        /\ branch = "multi" =>
              \A i \in 1..Len(multi_result.page_bounds) :
                  multi_result.page_bounds[i][2].y1 > multi_result.page_bounds[i][2].y0


====
